---- MODULE Spec2Model ----
(***************************************************************************)
(* Model of benches/python_comparison/download_and_run_python_mem0.py:     *)
(*   - main / setup_mem0 / run_benchmarks / format_comparison_results,     *)
(*     run as a sequence of process invocations over a persistent disk;    *)
(*   - the timed loops of the generated benchmark script                   *)
(*     (benchmark_memory_creation, _with_embedding, _retrieval);           *)
(*   - the summary statistics computed from a latency list.                *)
(* Numbers: time.time() is modelled as a fixed-point clock counted in      *)
(* hundredths of a second; Python's float quotient sum/len is modelled by  *)
(* the integer quotient.                                                   *)
(***************************************************************************)
EXTENDS Integers, Sequences, FiniteSets, TLC

\* ------------------------------------------------------------------ bounds
MaxRuns == 3          \* process invocations of main in one behaviour
MaxClock == 3         \* wall clock ticks observed by the orchestration
MaxRaw == 2           \* latency-list lengths behind the raw result files
MaxPersist == 3       \* report writes in one process
MaxPersistClock == 5  \* wall clock ticks observed while persisting
MaxPersistRaw == 2    \* latency-list lengths behind the persisted inputs
MaxIter == 3          \* largest `iterations` argument of a benchmark
MaxDur == 2           \* largest duration of one timed call, in clock units
MaxSetupDur == 1      \* largest duration of one fixture-generation step
MaxSizes == 2         \* how many entries of content_sizes / embedding_dims
MaxN == 4             \* longest latency list handed to the summary
MaxLat == 4           \* latencies are 10, 20, .. 10 * MaxLat ms

\* ------------------------------------------------------- program constants
TicksPerSecond == 2   \* clock ticks per second of strftime("%S") resolution
ToMsFactor == 10      \* (end - start) * 1000 with the clock in 1/100 s
PrePopulate == 10     \* for i in range(10) of benchmark_memory_retrieval

content_sizes == <<10, 100, 1000, 10000>>
embedding_dims == <<32, 128, 512, 1536>>

\* ------------------------------------------------- statistics (pure code)
RECURSIVE Sum(_)
Sum(s) == IF s = <<>> THEN 0 ELSE Head(s) + Sum(Tail(s))

RECURSIVE Min(_)
Min(s) == IF Len(s) = 1 THEN Head(s)
          ELSE LET m == Min(Tail(s)) IN IF Head(s) <= m THEN Head(s) ELSE m

RECURSIVE Max(_)
Max(s) == IF Len(s) = 1 THEN Head(s)
          ELSE LET m == Max(Tail(s)) IN IF Head(s) >= m THEN Head(s) ELSE m

RECURSIVE Insert(_, _)
Insert(x, s) == IF s = <<>> THEN <<x>>
                ELSE IF x <= Head(s) THEN <<x>> \o s
                ELSE <<Head(s)>> \o Insert(x, Tail(s))

RECURSIVE sorted(_)
sorted(s) == IF s = <<>> THEN <<>> ELSE Insert(Head(s), sorted(Tail(s)))

\* faulty variant: the lower of the two central elements
MedianIndex_lower(n) == (n - 1) \div 2

\* len(times) // 2, a 0-based index
MedianIndex(n) == n \div 2

\* the dict literal {"mean_ms": .., "median_ms": .., "min_ms": .., "max_ms": ..}
Summary(t) ==
    [mean_ms   |-> Sum(t) \div Len(t),
     median_ms |-> sorted(t)[MedianIndex(Len(t)) + 1],
     min_ms    |-> Min(t),
     max_ms    |-> Max(t)]

\* faulty variant: the median subscript is evaluated before the mean
SummaryError_medianFirst(t) == IF Len(t) = 0 THEN "IndexError" ELSE "none"

\* the exception the dict literal raises: "mean_ms" is evaluated first and
\* divides by len(times)
SummaryError(t) == IF Len(t) = 0 THEN "ZeroDivisionError" ELSE "none"

\* f"memory_creation_{size}"
Key(prefix, n) == <<prefix, n>>

EmptyDict == [k \in {} |-> 0]

\* all_results of the benchmark script, for one size / one dim
AllResults(t) ==
    [memory_creation       |-> (Key("memory_creation", 10) :> Summary(t)),
     memory_with_embedding |-> (Key("memory_with_embedding", 32) :> Summary(t)),
     memory_retrieval      |-> Summary(t)]

\* the raw result files a benchmark subprocess can leave behind
RawSet(max) == {AllResults([i \in 1..n |-> 10 * i]) : n \in 1..max}

\* ------------------------------------------------ report (pure part)
ZeroSummaryEntry == [python_avg_ms |-> 0, rust_avg_ms |-> 0, speedup_factor |-> 0]

\* faulty variant: the summary carries the reference-side mean
SummaryEntry_fromMeans(suite) ==
    [python_avg_ms |-> suite[CHOOSE k \in DOMAIN suite : TRUE].mean_ms,
     rust_avg_ms |-> 0, speedup_factor |-> 0]

\* one entry of comparison.summary
SummaryEntry(suite) == ZeroSummaryEntry

\* faulty variant: the candidate side is left out until it is available
BenchmarkResults_noRust(mem0_results) ==
    [python_results |->
        [memory_creation       |-> mem0_results.memory_creation,
         memory_with_embedding |-> mem0_results.memory_with_embedding],
     comparison |->
        [memory_creation       |-> EmptyDict,
         memory_with_embedding |-> EmptyDict,
         summary |->
            [memory_creation       |-> SummaryEntry(mem0_results.memory_creation),
             memory_with_embedding |-> SummaryEntry(mem0_results.memory_with_embedding),
             overall               |-> SummaryEntry(mem0_results.memory_creation)]]]

\* the benchmark_results dict of format_comparison_results
BenchmarkResults(mem0_results) ==
    [python_results |->
        [memory_creation       |-> mem0_results.memory_creation,
         memory_with_embedding |-> mem0_results.memory_with_embedding],
     rust_results |->
        [memory_creation       |-> EmptyDict,
         memory_with_embedding |-> EmptyDict],
     comparison |->
        [memory_creation       |-> EmptyDict,
         memory_with_embedding |-> EmptyDict,
         summary |->
            [memory_creation       |-> SummaryEntry(mem0_results.memory_creation),
             memory_with_embedding |-> SummaryEntry(mem0_results.memory_with_embedding),
             overall               |-> SummaryEntry(mem0_results.memory_creation)]]]

\* datetime.now().strftime("%Y%m%d_%H%M%S"): the clock truncated to seconds
Timestamp(c) == c \div TicksPerSecond

\* output_dir / f"python_mem0_results_{timestamp}.json"
OutputFile(c) == <<"python_mem0_results", Timestamp(c)>>

\* ------------------------------------------------------------------ state
VARIABLES
    vendor_dir,     \* vendor/ exists
    mem0_dir,       \* vendor/mem0 exists
    venv_dir,       \* vendor/mem0/venv exists
    results_file,   \* vendor/mem0/mem0_benchmark_results.json: <<>> or <<content>>
    installed,      \* both pip installs completed in the environment on disk
    reports,        \* benchmark_results/: output file |-> content
    clock,          \* datetime.now(), in ticks
    pc,             \* position of the running main process
    exit_code,      \* -1 while running, else the process exit code
    mem0_results,   \* `results` of main: <<>> or <<content>>
    written,        \* output files returned by format_comparison_results in this process
    log,            \* steps attempted by this process, <<step, outcome>> each
    prev_log,       \* the log of the previous process
    runs,           \* processes started so far
    bpc,            \* position inside a benchmark function of the script
    kind,           \* which benchmark function runs
    sizes,          \* its `sizes` / `dims` argument
    size_idx,       \* position of the outer for loop
    iterations,     \* its `iterations` argument
    iter,           \* completed passes of the inner for loop
    prepopulated,   \* completed passes of the pre-population loop
    now,            \* time.time()
    start,          \* the local `start`
    times,          \* the local `times`
    op_durs,        \* true duration of each timed call made for this `times`
    bench_results,  \* the local `results`
    bench_error     \* the exception that left the benchmark function

diskVars == <<vendor_dir, mem0_dir, venv_dir, results_file, installed>>
mainVars == <<pc, exit_code, mem0_results, log, prev_log, runs>>
outVars == <<reports, clock, written>>
benchVars == <<bpc, kind, sizes, size_idx, iterations, iter, prepopulated, now,
               start, times, op_durs, bench_results, bench_error>>
otherVars == <<diskVars, mainVars, outVars>>
vars == <<diskVars, mainVars, outVars, benchVars>>

Has(l, step, outcome) == \E i \in 1..Len(l) : l[i] = <<step, outcome>>
Count(l, step) == Cardinality({i \in 1..Len(l) : l[i][1] = step})
Attempted(l, step) == Count(l, step) > 0
Failed(l) == \E i \in 1..Len(l) : l[i][2] # "ok"

\* ------------------------------------------------- inactive parts of a spec
BenchIdle ==
    /\ bpc = "off" /\ kind = "none" /\ sizes = <<>> /\ size_idx = 0
    /\ iterations = 0 /\ iter = 0 /\ prepopulated = 0 /\ now = 0 /\ start = 0
    /\ times = <<>> /\ op_durs = <<>> /\ bench_results = EmptyDict
    /\ bench_error = "none"

DiskIdle ==
    /\ vendor_dir = FALSE /\ mem0_dir = FALSE /\ venv_dir = FALSE
    /\ results_file = <<>> /\ installed = FALSE

MainIdle ==
    /\ pc = "off" /\ exit_code = -1 /\ mem0_results = <<>>
    /\ log = <<>> /\ prev_log = <<>> /\ runs = 0

OutIdle == reports = EmptyDict /\ clock = 0 /\ written = <<>>

\* ------------------------------------------------------- orchestration
\* the disk a first process can find: nothing, a bare vendor/ or vendor/mem0,
\* or an environment an earlier run installed
Init ==
    /\ \/ /\ vendor_dir \in BOOLEAN /\ mem0_dir = FALSE /\ venv_dir = FALSE
          /\ installed = FALSE /\ results_file = <<>>
       \/ /\ vendor_dir = TRUE /\ mem0_dir = TRUE /\ venv_dir = FALSE
          /\ installed = FALSE /\ results_file = <<>>
       \/ /\ vendor_dir = TRUE /\ mem0_dir = TRUE /\ venv_dir = TRUE
          /\ installed = TRUE
          /\ results_file \in {<<>>} \cup {<<r>> : r \in RawSet(MaxRaw)}
    /\ pc = "main" /\ exit_code = -1 /\ mem0_results = <<>>
    /\ log = <<>> /\ prev_log = <<>> /\ runs = 1
    /\ OutIdle
    /\ BenchIdle

\* except Exception as e: print; sys.exit(1)
Raise(step, outcome) ==
    /\ log' = Append(log, <<step, outcome>>)
    /\ pc' = "exit"
    /\ exit_code' = 1

\* faulty variant: provisioning repeated on every run
NeedsSetup_always(m, v) == TRUE

\* if not (mem0_dir.exists() and venv_dir.exists())
NeedsSetup(m, v) == ~(m /\ v)

\* main, up to the branch on the existing installation
Main ==
    /\ pc = "main"
    /\ IF NeedsSetup(mem0_dir, venv_dir)
       THEN /\ pc' = "setup_mem0"
            /\ log' = log
       ELSE /\ pc' = "run_benchmarks"
            /\ log' = Append(log, <<"reuse", "ok">>)
    /\ UNCHANGED <<diskVars, exit_code, mem0_results, prev_log, runs, outVars, benchVars>>

\* setup_mem0: vendor_dir.mkdir(exist_ok=True); shutil.rmtree(mem0_dir) if it exists
SetupRmtree ==
    /\ pc = "setup_mem0"
    /\ vendor_dir' = TRUE
    /\ IF mem0_dir
       THEN \/ /\ mem0_dir' = FALSE /\ venv_dir' = FALSE
               /\ results_file' = <<>> /\ installed' = FALSE
               /\ log' = Append(log, <<"rmtree", "ok">>)
               /\ pc' = "clone"
               /\ UNCHANGED exit_code
            \/ /\ Raise("rmtree", "oserror")
               /\ UNCHANGED <<mem0_dir, venv_dir, results_file, installed>>
       ELSE /\ pc' = "clone"
            /\ UNCHANGED <<mem0_dir, venv_dir, results_file, installed, log, exit_code>>
    /\ UNCHANGED <<mem0_results, prev_log, runs, outVars, benchVars>>

\* subprocess.run(["git", "clone", ...], check=True)
Clone ==
    /\ pc = "clone"
    /\ \/ /\ mem0_dir' = TRUE
          /\ log' = Append(log, <<"clone", "ok">>)
          /\ pc' = "venv"
          /\ UNCHANGED exit_code
       \/ /\ mem0_dir' \in BOOLEAN
          /\ Raise("clone", "nonzero")
    /\ UNCHANGED <<vendor_dir, venv_dir, results_file, installed, mem0_results,
                   prev_log, runs, outVars, benchVars>>

\* subprocess.run([sys.executable, "-m", "venv", str(venv_dir)], check=True)
Venv ==
    /\ pc = "venv"
    /\ \/ /\ venv_dir' = TRUE
          /\ log' = Append(log, <<"venv", "ok">>)
          /\ pc' = "pip_mem0"
          /\ UNCHANGED exit_code
       \/ /\ venv_dir' \in BOOLEAN
          /\ Raise("venv", "nonzero")
    /\ UNCHANGED <<vendor_dir, mem0_dir, results_file, installed, mem0_results,
                   prev_log, runs, outVars, benchVars>>

\* subprocess.run([pip, "install", "-e", str(mem0_dir)], check=True)
PipMem0 ==
    /\ pc = "pip_mem0"
    /\ \/ /\ log' = Append(log, <<"pip_mem0", "ok">>)
          /\ pc' = "pip_numpy"
          /\ UNCHANGED exit_code
       \/ Raise("pip_mem0", "nonzero")
    /\ UNCHANGED <<diskVars, mem0_results, prev_log, runs, outVars, benchVars>>

\* subprocess.run([pip, "install", "numpy"], check=True); return mem0_dir, venv_dir
PipNumpy ==
    /\ pc = "pip_numpy"
    /\ \/ /\ log' = Append(log, <<"pip_numpy", "ok">>)
          /\ installed' = TRUE
          /\ pc' = "run_benchmarks"
          /\ UNCHANGED exit_code
       \/ /\ Raise("pip_numpy", "nonzero")
          /\ UNCHANGED installed
    /\ UNCHANGED <<vendor_dir, mem0_dir, venv_dir, results_file, mem0_results,
                   prev_log, runs, outVars, benchVars>>

\* faulty variant: the return code of the benchmark subprocess is not looked at
BenchmarkFailed_ignored(outcome) == FALSE

\* if result.returncode != 0: raise Exception("Benchmark failed")
BenchmarkFailed(outcome) == outcome # "ok"

\* run_benchmarks up to the return-code check: the script is written and run
\* in mem0_dir; the subprocess may or may not leave its results file
RunBenchmarks ==
    /\ pc = "run_benchmarks"
    /\ \/ /\ Raise("run_benchmarks", "oserror")
          /\ UNCHANGED results_file
       \/ \E outcome \in {"ok", "nonzero"} :
            /\ results_file' \in {results_file} \cup {<<r>> : r \in RawSet(MaxRaw)}
            /\ IF BenchmarkFailed(outcome)
               THEN Raise("run_benchmarks", outcome)
               ELSE /\ log' = Append(log, <<"run_benchmarks", outcome>>)
                    /\ pc' = "read_results"
                    /\ UNCHANGED exit_code
    /\ UNCHANGED <<vendor_dir, mem0_dir, venv_dir, installed, mem0_results,
                   prev_log, runs, outVars, benchVars>>

\* with open(results_file, 'r') as f: results = json.load(f)
ReadResults ==
    /\ pc = "read_results"
    /\ IF results_file = <<>>
       THEN /\ Raise("read_results", "missing")
            /\ UNCHANGED mem0_results
       ELSE /\ mem0_results' = results_file
            /\ log' = Append(log, <<"read_results", "ok">>)
            /\ pc' = "format"
            /\ UNCHANGED exit_code
    /\ UNCHANGED <<diskVars, prev_log, runs, outVars, benchVars>>

\* the file write of format_comparison_results: open(output_file, 'w'), json.dump
WriteReport(results) ==
    /\ reports' = (OutputFile(clock) :> BenchmarkResults(results)) @@ reports
    /\ written' = Append(written, OutputFile(clock))

\* format_comparison_results(results), then main returns; the write fails
\* when output_dir or output_file cannot be created
Format ==
    /\ pc = "format"
    /\ \/ /\ WriteReport(mem0_results[1])
          /\ log' = Append(log, <<"report", "ok">>)
          /\ pc' = "exit"
          /\ exit_code' = 0
       \/ /\ Raise("report", "oserror")
          /\ UNCHANGED <<reports, written>>
    /\ UNCHANGED <<diskVars, mem0_results, prev_log, runs, clock, benchVars>>

\* the next invocation of the script, over the disk the last one left
NewRun ==
    /\ pc = "exit"
    /\ runs < MaxRuns
    /\ runs' = runs + 1
    /\ prev_log' = log
    /\ log' = <<>>
    /\ pc' = "main"
    /\ exit_code' = -1
    /\ mem0_results' = <<>>
    /\ written' = <<>>
    /\ UNCHANGED <<diskVars, reports, clock, benchVars>>

\* the wall clock advances
Tick ==
    /\ clock < MaxClock
    /\ clock' = clock + 1
    /\ UNCHANGED <<diskVars, mainVars, reports, written, benchVars>>

Next ==
    \/ Main \/ SetupRmtree \/ Clone \/ Venv \/ PipMem0 \/ PipNumpy
    \/ RunBenchmarks \/ ReadResults \/ Format \/ NewRun \/ Tick

Spec == Init /\ [][Next]_vars

\* ------------------------------------------------ report writes in one process
\* format_comparison_results called repeatedly by one process
InitPersist ==
    /\ DiskIdle /\ MainIdle /\ OutIdle /\ BenchIdle

PersistCall ==
    /\ Len(written) < MaxPersist
    /\ \E r \in RawSet(MaxPersistRaw) : WriteReport(r)
    /\ UNCHANGED <<diskVars, mainVars, clock, benchVars>>

PersistTick ==
    /\ clock < MaxPersistClock
    /\ clock' = clock + 1
    /\ UNCHANGED <<diskVars, mainVars, reports, written, benchVars>>

NextPersist == PersistCall \/ PersistTick

SpecPersist == InitPersist /\ [][NextPersist]_vars

\* ------------------------------------------------ the benchmark functions
Kinds == {"creation", "embedding", "retrieval"}

Prefix(k) == IF k = "creation" THEN "memory_creation"
             ELSE IF k = "embedding" THEN "memory_with_embedding"
             ELSE "memory_retrieval"

\* the key the summary is stored under
ResultKey(k, n) == IF k = "retrieval" THEN <<Prefix(k)>> ELSE Key(Prefix(k), n)

\* (end - start) * 1000
ToMs(d) == d * ToMsFactor

\* faulty variant: one pass too many
LoopContinues_offByOne(i, n) == i <= n

\* for _ in range(iterations)
LoopContinues(i, n) == i < n

SizesOf(k, n) == IF k = "creation" THEN SubSeq(content_sizes, 1, n)
                 ELSE IF k = "embedding" THEN SubSeq(embedding_dims, 1, n)
                 ELSE <<>>

InitRunner ==
    /\ DiskIdle /\ MainIdle /\ OutIdle
    /\ kind \in Kinds
    /\ iterations \in 0..MaxIter
    /\ \E n \in 1..MaxSizes : sizes = SizesOf(kind, n)
    /\ bpc = IF kind = "retrieval" THEN "prepopulate" ELSE "for_size"
    /\ size_idx = 0 /\ iter = 0 /\ prepopulated = 0 /\ now = 0 /\ start = 0
    /\ times = <<>> /\ op_durs = <<>> /\ bench_results = EmptyDict
    /\ bench_error = "none"

\* for size in sizes: times = []
NextSize ==
    /\ UNCHANGED otherVars
    /\ bpc = "for_size"
    /\ size_idx < Len(sizes)
    /\ size_idx' = size_idx + 1
    /\ times' = <<>> /\ op_durs' = <<>> /\ iter' = 0
    /\ bpc' = "loop"
    /\ UNCHANGED <<kind, sizes, iterations, prepopulated, now, start,
                   bench_results, bench_error>>

\* return results
ReturnResults ==
    /\ UNCHANGED otherVars
    /\ bpc = "for_size"
    /\ size_idx = Len(sizes)
    /\ bpc' = "return"
    /\ UNCHANGED <<kind, sizes, size_idx, iterations, iter, prepopulated, now,
                   start, times, op_durs, bench_results, bench_error>>

\* benchmark_memory_retrieval: for i in range(10): m.add(random_content(1000), ..)
Prepopulate ==
    /\ UNCHANGED otherVars
    /\ bpc = "prepopulate"
    /\ IF prepopulated < PrePopulate
       THEN /\ \E d \in 1..MaxSetupDur : now' = now + d
            /\ prepopulated' = prepopulated + 1
            /\ bpc' = bpc
       ELSE /\ bpc' = "loop"
            /\ UNCHANGED <<now, prepopulated>>
    /\ UNCHANGED <<kind, sizes, size_idx, iterations, iter, start, times,
                   op_durs, bench_results, bench_error>>

\* the head of the inner loop and the input generation before the timer:
\* content = random_content(size) [; embedding = random_embedding(dim)]
BeginIteration ==
    /\ UNCHANGED otherVars
    /\ bpc = "loop"
    /\ LoopContinues(iter, iterations)
    /\ IF kind = "retrieval"
       THEN now' = now
       ELSE \E d \in 1..MaxSetupDur : now' = now + d
    /\ bpc' = "start"
    /\ UNCHANGED <<kind, sizes, size_idx, iterations, iter, prepopulated, start,
                   times, op_durs, bench_results, bench_error>>

\* the inner loop is exhausted
EndLoop ==
    /\ UNCHANGED otherVars
    /\ bpc = "loop"
    /\ ~LoopContinues(iter, iterations)
    /\ bpc' = "summarize"
    /\ UNCHANGED <<kind, sizes, size_idx, iterations, iter, prepopulated, now,
                   start, times, op_durs, bench_results, bench_error>>

\* start = time.time()
StartTimer ==
    /\ UNCHANGED otherVars
    /\ bpc = "start"
    /\ start' = now
    /\ bpc' = "call"
    /\ UNCHANGED <<kind, sizes, size_idx, iterations, iter, prepopulated, now,
                   times, op_durs, bench_results, bench_error>>

\* result = m.add(...) / memories = m.get_all(...): a blocking call
CallOperation ==
    /\ UNCHANGED otherVars
    /\ bpc = "call"
    /\ \E d \in 1..MaxDur :
        /\ now' = now + d
        /\ op_durs' = Append(op_durs, d)
    /\ bpc' = "end"
    /\ UNCHANGED <<kind, sizes, size_idx, iterations, iter, prepopulated, start,
                   times, bench_results, bench_error>>

\* end = time.time(); times.append((end - start) * 1000)
StopTimer ==
    /\ UNCHANGED otherVars
    /\ bpc = "end"
    /\ times' = Append(times, ToMs(now - start))
    /\ iter' = iter + 1
    /\ bpc' = "loop"
    /\ UNCHANGED <<kind, sizes, size_idx, iterations, prepopulated, now, start,
                   op_durs, bench_results, bench_error>>

\* results[key] = {"mean_ms": ..}, or the return of benchmark_memory_retrieval
StoreSummary ==
    /\ UNCHANGED otherVars
    /\ bpc = "summarize"
    /\ SummaryError(times) = "none"
    /\ bench_results' =
         (ResultKey(kind, IF kind = "retrieval" THEN 0 ELSE sizes[size_idx])
             :> Summary(times)) @@ bench_results
    /\ bpc' = IF kind = "retrieval" THEN "return" ELSE "for_size"
    /\ UNCHANGED <<kind, sizes, size_idx, iterations, iter, prepopulated, now,
                   start, times, op_durs, bench_error>>

\* the dict literal raises, nothing is stored and the function is left
RaiseSummaryError ==
    /\ UNCHANGED otherVars
    /\ bpc = "summarize"
    /\ SummaryError(times) # "none"
    /\ bench_error' = SummaryError(times)
    /\ bpc' = "raised"
    /\ UNCHANGED <<kind, sizes, size_idx, iterations, iter, prepopulated, now,
                   start, times, op_durs, bench_results>>

NextRunner ==
    \/ NextSize \/ ReturnResults \/ Prepopulate \/ BeginIteration \/ EndLoop
    \/ StartTimer \/ CallOperation \/ StopTimer \/ StoreSummary
    \/ RaiseSummaryError

SpecRunner == InitRunner /\ [][NextRunner]_vars

\* ------------------------------------------------ the summary on its own
\* every latency list of up to MaxN values 10, 20, .., at the summary statement
LatSeqs == UNION {[1..n -> {10 * v : v \in 1..MaxLat}] : n \in 0..MaxN}

InitStats ==
    /\ DiskIdle /\ MainIdle /\ OutIdle
    /\ kind \in {"creation", "retrieval"}
    /\ sizes = SizesOf(kind, 1)
    /\ size_idx = Len(sizes)
    /\ times \in LatSeqs
    /\ iterations = Len(times) /\ iter = Len(times)
    /\ op_durs = [i \in 1..Len(times) |-> times[i] \div ToMsFactor]
    /\ bpc = "summarize"
    /\ prepopulated = 0 /\ now = 0 /\ start = 0
    /\ bench_results = EmptyDict /\ bench_error = "none"

NextStats == StoreSummary \/ RaiseSummaryError

SpecStats == InitStats /\ [][NextStats]_vars

\* ================================================================ claims
ProvisioningSteps == {"clone", "venv", "pip_mem0", "pip_numpy"}
ProvisioningFailed(l) == \E st \in ProvisioningSteps : Has(l, st, "nonzero")
ProvisionedOk(l) == Has(l, "pip_numpy", "ok")

\* main takes no argument and reads no option: no run carries a force-refresh
\* request
ForceRefreshRequested == FALSE

\* C1: after a provisioning attempt that failed at the clone, venv or pip
\* step, a later run of main does not take the reuse branch for an
\* environment whose install step never completed.
C1_FailedProvisioningNotReused ==
    (ProvisioningFailed(prev_log) /\ Has(log, "reuse", "ok")) => installed

\* C2: a run that follows a successfully provisioning run performs no
\* delete, clone, venv creation or install, reuses the environment, and the
\* install step has happened exactly once across the two runs.
C2_SecondRunReuses ==
    (ProvisionedOk(prev_log) /\ pc # "main") =>
        /\ \A st \in ProvisioningSteps \cup {"rmtree"} : ~Attempted(log, st)
        /\ Has(log, "reuse", "ok")
        /\ mem0_dir /\ venv_dir /\ installed
        /\ Count(prev_log, "pip_mem0") + Count(log, "pip_mem0") = 1
        /\ Count(prev_log, "pip_numpy") + Count(log, "pip_numpy") = 1

C2_Witness ==
    /\ ProvisionedOk(prev_log)
    /\ pc = "exit"
    /\ Has(log, "reuse", "ok")

\* C3: without an explicit force-refresh request, an existing vendor/mem0 is
\* never removed.
C3_NoDeletionByDefault ==
    ~ForceRefreshRequested => ~Has(log, "rmtree", "ok")

\* a provisioning step failed, the benchmark subprocess failed or the raw
\* results file was missing
FailedBeforeReport(l) == \E i \in 1..Len(l) : l[i][1] # "report" /\ l[i][2] # "ok"

\* C4: a run in which provisioning failed, the benchmark subprocess exited
\* non-zero or the raw results file was missing exits non-zero and writes no
\* report; exit code 0 only after provisioning or reuse, the benchmark run,
\* the read of the raw results and the report write all succeeded.
C4_FailureIsFatal ==
    /\ pc # "exit" => exit_code = -1
    /\ FailedBeforeReport(log) =>
        (pc = "exit" /\ exit_code # 0 /\ written = <<>> /\ ~Attempted(log, "report"))
    /\ pc = "exit" =>
        /\ exit_code \in {0, 1}
        /\ Failed(log) => exit_code # 0
        /\ exit_code = 0 =>
            /\ ~Failed(log)
            /\ ProvisionedOk(log) \/ Has(log, "reuse", "ok")
            /\ Has(log, "run_benchmarks", "ok")
            /\ Has(log, "read_results", "ok")
            /\ Has(log, "report", "ok")
            /\ Len(written) = 1
            /\ written[1] \in DOMAIN reports

C4_Witness ==
    /\ pc = "exit"
    /\ Has(log, "run_benchmarks", "nonzero")
    /\ results_file # <<>>
    /\ exit_code = 1

\* C5: two report writes of one process return distinct paths, also within
\* the same wall-clock second.
C5_DistinctPaths ==
    \A i, j \in 1..Len(written) : i # j => written[i] # written[j]

TopLevelKeys == {"python_results", "rust_results", "comparison"}
ZeroStat == [mean_ms |-> 0, median_ms |-> 0, min_ms |-> 0, max_ms |-> 0]

C7_OneLatencyPerInvocation ==
    /\ bpc = "summarize" => (Len(op_durs) = iterations /\ Len(times) = iterations)
    /\ \A i \in 1..Len(times) : i <= Len(op_durs) /\ times[i] = ToMs(op_durs[i])
    /\ Len(op_durs) = Len(times) + (IF bpc = "end" THEN 1 ELSE 0)

C7_Witness ==
    /\ bpc = "summarize"
    /\ kind = "creation"
    /\ iterations = 2
    /\ times[1] # times[2]
    /\ now > Sum(op_durs)

\* C8: the stored median_ms is the element at index floor(n/2) of the sorted
\* latencies (at most floor(n/2) latencies lie below it, at least
\* floor(n/2)+1 do not exceed it; 30 for [10, 20, 30, 40]), and
\* min_ms <= median_ms <= max_ms with min_ms and max_ms the extrema.
C8_UpperMedian ==
    (bpc \in {"return", "for_size"} /\ times # <<>>) =>
        LET n == Len(times)
            k == ResultKey(kind, IF kind = "retrieval" THEN 0 ELSE sizes[size_idx])
            elems == {times[i] : i \in 1..n}
        IN  /\ k \in DOMAIN bench_results
            /\ LET s == bench_results[k] IN
                /\ s.median_ms \in elems
                /\ Cardinality({i \in 1..n : times[i] < s.median_ms}) <= n \div 2
                /\ Cardinality({i \in 1..n : times[i] <= s.median_ms}) >= n \div 2 + 1
                /\ times = <<10, 20, 30, 40>> => s.median_ms = 30
                /\ s.min_ms \in elems /\ \A x \in elems : s.min_ms <= x
                /\ s.max_ms \in elems /\ \A x \in elems : x <= s.max_ms
                /\ s.min_ms <= s.median_ms /\ s.median_ms <= s.max_ms

C8_Witness ==
    /\ bpc = "return"
    /\ times = <<40, 10, 30, 20>>
    /\ bench_results[<<"memory_retrieval">>].median_ms = 30

SummaryNames == {"memory_creation", "memory_with_embedding", "overall"}

\* C10: every comparison.summary entry has speedup_factor = python_avg_ms /
\* rust_avg_ms when both are non-zero and 0 otherwise; python_avg_ms,
\* rust_avg_ms and speedup_factor are all 0 whatever the reference means.
C10_SpeedupAlwaysZero ==
    \A f \in DOMAIN reports :
        LET sm == reports[f].comparison.summary IN
        /\ DOMAIN sm = SummaryNames
        /\ \A e \in SummaryNames :
            /\ IF sm[e].python_avg_ms # 0 /\ sm[e].rust_avg_ms # 0
               THEN sm[e].speedup_factor * sm[e].rust_avg_ms = sm[e].python_avg_ms
               ELSE sm[e].speedup_factor = 0
            /\ sm[e].python_avg_ms = 0
            /\ sm[e].rust_avg_ms = 0
            /\ sm[e].speedup_factor = 0

C10_Witness ==
    \E f \in DOMAIN reports :
        \E k \in DOMAIN reports[f].python_results.memory_creation :
            reports[f].python_results.memory_creation[k].mean_ms > 0

====
